---- MODULE Spec2Model ----
(***************************************************************************)
(* Model of nnunetv2/model_sharing/onnx_export.py: export_onnx_model.      *)
(*                                                                         *)
(* The function is one sequential procedure: three nested loops            *)
(* (configurations, zip(save_checkpoints, output_names), zip(folds,        *)
(* list_of_parameters)) around the per-pair steps                          *)
(*   mkdir -> export -> check -> run -> compare -> write_config.           *)
(* The state is the position in those loops, the output file system, the   *)
(* state of the output_names iterable and the exception that ended the     *)
(* call, if any.  Strings that the code slices or concatenates (file       *)
(* names) are sequences of one-character strings.                          *)
(***************************************************************************)
EXTENDS Integers, Sequences, FiniteSets, TLC

\* ------------------------------------------------------------------ bounds
MaxConfigs == 2
MaxFold == 1
MaxCkpts == 2
MaxBatch == 2

\* ------------------------------------------------------------ file names
CheckpointPrefix == <<"c","h","e","c","k","p","o","i","n","t","_">>

PthExt == <<".","p","t","h">>

OnnxExt == <<".","o","n","n","x">>

ConfigJson == <<"c","o","n","f","i","g",".","j","s","o","n">>

\* default of the parameter `configurations`
DefaultConfigurations == <<"2d", "3d_lowres", "3d_fullres", "3d_cascade_fullres">>

\* checkpoint file names a trainer writes
CheckpointNames ==
  << CheckpointPrefix \o <<"f","i","n","a","l">> \o PthExt,
     CheckpointPrefix \o <<"b","e","s","t">> \o PthExt,
     CheckpointPrefix \o <<"l","a","t","e","s","t">> \o PthExt >>

\* an explicit output name for the i-th checkpoint
GivenName(i) == <<"m", ToString(i)>> \o OnnxExt

\* Python s[:-4]
StripLast4(s) == IF Len(s) <= 4 THEN << >> ELSE SubSeq(s, 1, Len(s) - 4)

\* f"{checkpoint[:-4]}.onnx"
DefaultOutputName(checkpoint) == StripLast4(checkpoint) \o OnnxExt

\* ------------------------------------------------------------ JSON values
JInt(n) == [int |-> n]

JStr(s) == [str |-> s]

JList(l) == [list |-> l]

\* ------------------------------------------------------------ the inputs
Prefix(s, n) == SubSeq(s, 1, n)

\* folds: a run of consecutive fold numbers a..b
FoldRun(a, b) == [i \in 1..(b - a + 1) |-> a + i - 1]

FoldTuples == { FoldRun(a, MaxFold) : a \in 0..MaxFold }

\* batch_size: negative, dynamic, one, more than one
BatchSizes == {-1, 0, 1, MaxBatch}

\* dataset.json of a trained model: integer labels, or region-based labels
DatasetJsons ==
  { [ channel_names |-> [k \in {"0"} |-> "CT"],
      labels |-> << <<"background", JInt(0)>>, <<"tumor", JInt(1)>> >> ],
    [ channel_names |-> [k \in {"0", "1"} |-> IF k = "0" THEN "T1" ELSE "T2"],
      labels |-> << <<"background", JInt(0)>>,
                    <<"whole_tumor", JList(<<1, 2>>)>>,
                    <<"core", JList(<<2>>)>> >> ] }

\* plans.json: foreground intensity properties per channel, one manager per
\* configuration
PlansFor(dj) ==
  [ foreground_intensity_properties_per_channel |->
      [k \in DOMAIN dj.channel_names |-> [mean |-> k, std |-> k]],
    configurations |->
      [c \in {DefaultConfigurations[i] : i \in 1..4} |->
         [ patch_size |-> IF c = "2d" THEN <<512, 512>> ELSE <<128, 128, 128>>,
           spacing |-> IF c = "2d" THEN <<1, 1>> ELSE <<1, 1, 1>>,
           normalization_schemes |-> <<"CTNormalization">>,
           UNet_class_name |-> "PlainConvUNet",
           UNet_base_num_features |-> 32,
           unet_max_num_features |-> IF c = "2d" THEN 512 ELSE 320,
           conv_kernel_sizes |-> IF c = "2d" THEN <<3, 3>> ELSE <<3, 3, 3>>,
           pool_op_kernel_sizes |-> IF c = "2d" THEN <<2, 2>> ELSE <<2, 2, 2>>,
           num_pool_per_axis |-> IF c = "2d" THEN <<7, 7>> ELSE <<5, 5, 5>> ] ] ]

\* output_dir / c / f"fold_{fold}"
OutputPath(c, fold) == <<c, <<"fold_", fold>>>>

\* an entry that is in an output directory before the call
OldEntry(d) == [dir |-> d, name |-> <<"o","l","d">>, kind |-> "entry", content |-> << >>]

VARIABLES
  args,          \* the arguments of the call
  env,           \* what is on disk before the call: trained models, dataset
  output_names,  \* the iterable made at lines 36-37
  pc,            \* position in the procedure
  err,           \* the exception that ended the call, "none" if none
  ci, ki, fi,    \* positions of the three loops (1-based)
  output_name,   \* loop variable of the checkpoint loop
  list_of_parameters,
  network,       \* the parameters loaded into predictor.network
  dirs, files,   \* the file system under output_dir
  rand_input,    \* shape of the sample input
  checked, ran,  \* artifacts that passed onnx.checker / were run by onnxruntime
  last_parity    \* outcome of the last assert_allclose

vars == <<args, env, output_names, pc, err, ci, ki, fi, output_name,
          list_of_parameters, network, dirs, files, rand_input, checked, ran,
          last_parity>>

NoParams == [configuration |-> "", checkpoint |-> << >>, slot |-> 0]

NoParity == [dir |-> << >>, ok |-> TRUE, seen |-> FALSE]

Init ==
  /\ \E nc \in 1..MaxConfigs, nk \in 1..MaxCkpts, fo \in FoldTuples,
        bs \in BatchSizes, st \in BOOLEAN, given \in BOOLEAN,
        missing \in 0..MaxConfigs, dj \in DatasetJsons,
        pc0 \in 0..MaxConfigs, pf0 \in 0..MaxFold, full \in BOOLEAN :
       \* at most one configuration lacks its trained model, at most one
       \* output directory exists beforehand (pc0 = 0: none), empty or not
       /\ missing <= nc /\ pc0 <= nc
       /\ pc0 = 0 => (pf0 = 0 /\ ~full)
       /\ args = [ configurations |-> Prefix(DefaultConfigurations, nc),
                  batch_size |-> bs,
                  folds |-> fo,
                  strict |-> st,
                  save_checkpoints |-> Prefix(CheckpointNames, nk),
                  \* << >> stands for None
                  output_names |-> IF given THEN [i \in 1..nk |-> GivenName(i)]
                                            ELSE << >> ]
       /\ LET pre == IF pc0 = 0 THEN {}
                     ELSE {OutputPath(DefaultConfigurations[pc0], pf0)}
          IN /\ env = [ trained |-> {DefaultConfigurations[i] : i \in 1..nc}
                                     \ {DefaultConfigurations[i] : i \in {missing} \ {0}},
                        dataset_json |-> dj, plans |-> PlansFor(dj),
                        init_dirs |-> pre,
                        init_files |-> IF full THEN {OldEntry(d) : d \in pre}
                                               ELSE {} ]
             /\ dirs = pre
             /\ files = env.init_files
  /\ output_names = [generator |-> FALSE, items |-> << >>, pos |-> 1]
  /\ pc = "start"
  /\ err = "none"
  /\ ci = 0 /\ ki = 0 /\ fi = 0
  /\ output_name = << >>
  /\ list_of_parameters = << >>
  /\ network = NoParams
  /\ rand_input = << >>
  /\ checked = {} /\ ran = {}
  /\ last_parity = NoParity

\* ------------------------------------------------------- helpers of the body
\* faulty variant: batch size 1 is treated as dynamic too
use_dynamic_axes_UpToOne == args.batch_size <= 1

\* use_dynamic_axes = batch_size == 0
use_dynamic_axes == args.batch_size = 0

\* the loop variables c and fold
c == args.configurations[ci]

fold == args.folds[fi]

\* isdir(trainer_output_dir)
isdir(cfg) == cfg \in env.trained

\* load_json(join(trainer_output_dir, ...)) finds its file: dataset.json and
\* plans.json lie in the trained model directory
CanLoadJson(cfg) == cfg \in env.trained

\* predictor.configuration_manager
config == env.plans.configurations[c]

\* faulty variant: the directory is named after the position in folds
curr_output_dir_ByPosition == OutputPath(c, fi - 1)

\* curr_output_dir = output_dir / c / f"fold_{fold}"
curr_output_dir == OutputPath(c, fold)

\* faulty variant: one entry is tolerated
DirNotEmpty_MoreThanOne(d) == Cardinality({f \in files : f.dir = d}) > 1

\* len(list(curr_output_dir.iterdir())) > 0
DirNotEmpty(d) == \E f \in files : f.dir = d

\* open(path, "w") followed by a write: the file is created or replaced
WriteFile(fs, d, n, k, cont) ==
  {f \in fs : ~(f.dir = d /\ f.name = n)} \cup
    {[dir |-> d, name |-> n, kind |-> k, content |-> cont]}

\* faulty variant: the metadata file is written right after the export
PairSteps_ConfigFirst == <<"mkdir", "export", "write_config", "check", "run", "compare">>

\* the steps of one configuration/fold pair, in program order
PairSteps == <<"mkdir", "export", "check", "run", "compare", "write_config">>

StepAfter(step) ==
  LET i == CHOOSE j \in 1..Len(PairSteps) : PairSteps[j] = step
  IN  IF i = Len(PairSteps) THEN "fold" ELSE PairSteps[i + 1]

\* next(iterator) over output_names inside zip: <<exhausted, item, new state>>.
\* A tuple is iterated afresh by every zip; a generator keeps its position.
NextOutputName ==
  IF output_names.generator
    THEN IF output_names.pos > Len(output_names.items)
           THEN [stop |-> TRUE, item |-> << >>, then |-> output_names]
           ELSE [stop |-> FALSE,
                 item |-> DefaultOutputName(output_names.items[output_names.pos]),
                 then |-> [output_names EXCEPT !.pos = @ + 1]]
    ELSE IF ki + 1 > Len(output_names.items)
           THEN [stop |-> TRUE, item |-> << >>, then |-> output_names]
           ELSE [stop |-> FALSE, item |-> output_names.items[ki + 1],
                 then |-> output_names]

\* predictor.initialize_from_trained_model_folder(..., use_folds=folds,
\* checkpoint_name=...): one parameter set per entry of folds
InitializeFromTrainedModelFolder(cfg, ck) ==
  [i \in 1..Len(args.folds) |-> [configuration |-> cfg, checkpoint |-> ck, slot |-> i]]

Raise(e) == pc' = "raised" /\ err' = e

\* ---------------------------------------------------------------- actions
\* lines 36-42
Start ==
  /\ pc = "start"
  /\ output_names' =
       IF Len(args.output_names) = 0
         THEN [generator |-> TRUE, items |-> args.save_checkpoints, pos |-> 1]
         ELSE [generator |-> FALSE, items |-> args.output_names, pos |-> 1]
  /\ IF args.batch_size < 0
       THEN Raise("ValueError")
       ELSE pc' = "config" /\ err' = err
  /\ UNCHANGED <<args, env, ci, ki, fi, output_name, list_of_parameters, network,
                 dirs, files, rand_input, checked, ran, last_parity>>

\* lines 45-69: head of `for c in configurations` up to the predictor
NextConfiguration ==
  /\ pc = "config"
  /\ IF ci + 1 > Len(args.configurations)
       THEN pc' = "returned" /\ UNCHANGED <<err, ci, ki>>
       ELSE /\ ci' = ci + 1
            /\ LET cfg == args.configurations[ci + 1] IN
               \* lines 50 and 54: load_json raises when the file is absent
               IF ~CanLoadJson(cfg)
                 THEN Raise("FileNotFoundError") /\ ki' = ki
                 \* line 57
                 ELSE IF ~isdir(cfg)
                   THEN IF args.strict
                          THEN Raise("RuntimeError_missing") /\ ki' = ki
                          ELSE pc' = "config" /\ UNCHANGED <<err, ki>>
                   ELSE pc' = "ckpt" /\ ki' = 0 /\ err' = err
  /\ UNCHANGED <<args, env, output_names, fi, output_name, list_of_parameters,
                 network, dirs, files, rand_input, checked, ran, last_parity>>

\* lines 71-81: head of `for checkpoint_name, output_name in zip(...)`
NextCheckpoint ==
  /\ pc = "ckpt"
  /\ IF ki + 1 > Len(args.save_checkpoints)
       THEN /\ pc' = "config"
            /\ UNCHANGED <<output_names, output_name, list_of_parameters, ki, fi>>
       ELSE LET nx == NextOutputName IN
            IF nx.stop
              THEN /\ pc' = "config"
                   /\ UNCHANGED <<output_names, output_name, list_of_parameters,
                                  ki, fi>>
              ELSE /\ ki' = ki + 1
                   /\ output_names' = nx.then
                   /\ output_name' = nx.item
                   /\ list_of_parameters' =
                        InitializeFromTrainedModelFolder(c, args.save_checkpoints[ki + 1])
                   /\ fi' = 0
                   /\ pc' = "fold"
  /\ UNCHANGED <<args, env, err, ci, network, dirs, files, rand_input, checked,
                 ran, last_parity>>

\* lines 83-86: head of `for fold, params in zip(folds, list_of_parameters)`
NextFold ==
  /\ pc = "fold"
  /\ IF fi + 1 > Len(args.folds) \/ fi + 1 > Len(list_of_parameters)
       THEN pc' = "ckpt" /\ fi' = fi /\ network' = network
       ELSE /\ fi' = fi + 1
            /\ network' = list_of_parameters[fi + 1]
            /\ pc' = PairSteps[1]
  /\ UNCHANGED <<args, env, output_names, err, ci, ki, output_name,
                 list_of_parameters, dirs, files, rand_input, checked, ran,
                 last_parity>>

\* lines 88-95
MakeOutputDir ==
  /\ pc = "mkdir"
  /\ IF curr_output_dir \notin dirs
       THEN dirs' = dirs \cup {curr_output_dir} /\ pc' = StepAfter("mkdir") /\ err' = err
       ELSE /\ dirs' = dirs
            /\ IF DirNotEmpty(curr_output_dir)
                 THEN Raise("RuntimeError_notempty")
                 ELSE pc' = StepAfter("mkdir") /\ err' = err
  /\ UNCHANGED <<args, env, output_names, ci, ki, fi, output_name,
                 list_of_parameters, network, files, rand_input, checked, ran,
                 last_parity>>

\* lines 97-126: sample input, torch forward pass, torch.onnx.export.
\* The exporter either writes the artifact or raises.
Export ==
  /\ pc = "export"
  /\ rand_input' = <<IF use_dynamic_axes THEN 1 ELSE args.batch_size, 1>>
                     \o config.patch_size
  /\ \E ok \in BOOLEAN :
       IF ok
         THEN /\ files' = WriteFile(files, curr_output_dir, output_name, "onnx",
                            << [ params |-> network,
                                 input_shape |-> rand_input',
                                 dynamic_axes |-> use_dynamic_axes ] >>)
              /\ pc' = StepAfter("export") /\ err' = err
         ELSE Raise("ExportError") /\ files' = files
  /\ UNCHANGED <<args, env, output_names, ci, ki, fi, output_name,
                 list_of_parameters, network, dirs, checked, ran, last_parity>>

\* lines 128-129: onnx.load, onnx.checker.check_model (raises on an invalid model)
Check ==
  /\ pc = "check"
  /\ \E ok \in BOOLEAN :
       IF ok
         THEN /\ checked' = checked \cup {<<curr_output_dir, output_name>>}
              /\ pc' = StepAfter("check") /\ err' = err
         ELSE Raise("CheckError") /\ checked' = checked
  /\ UNCHANGED <<args, env, output_names, ci, ki, fi, output_name,
                 list_of_parameters, network, dirs, files, rand_input, ran,
                 last_parity>>

\* lines 131-135: onnxruntime session on the artifact, one run on rand_input
Run ==
  /\ pc = "run"
  /\ ran' = ran \cup {<<curr_output_dir, output_name>>}
  /\ pc' = StepAfter("run")
  /\ UNCHANGED <<args, env, output_names, err, ci, ki, fi, output_name,
                 list_of_parameters, network, dirs, files, rand_input, checked,
                 last_parity>>

\* faulty variant: the AssertionError is not caught
CompareOutcome_Uncaught(ok) ==
  IF ok THEN [pc |-> "write_config", err |-> "none"]
        ELSE [pc |-> "raised", err |-> "AssertionError"]

\* lines 137-150: what the try/except around assert_allclose leaves behind
CompareOutcome(ok) == [pc |-> StepAfter("compare"), err |-> "none"]

Compare ==
  /\ pc = "compare"
  /\ \E ok \in BOOLEAN :
       /\ pc' = CompareOutcome(ok).pc
       /\ err' = CompareOutcome(ok).err
       /\ last_parity' = [dir |-> curr_output_dir, ok |-> ok, seen |-> TRUE]
  /\ UNCHANGED <<args, env, output_names, ci, ki, fi, output_name,
                 list_of_parameters, network, dirs, files, rand_input, checked,
                 ran>>

\* {v: k for k, v in labels.items()}: a list is not hashable; of two names
\* with the same value the later one wins
Hashable(v) == "int" \in DOMAIN v

ClassNames(labels) ==
  [v \in {labels[i][2].int : i \in 1..Len(labels)} |->
     labels[CHOOSE i \in 1..Len(labels) :
              /\ labels[i][2].int = v
              /\ \A j \in 1..Len(labels) : labels[j][2].int = v => j <= i][1]]

\* lines 155-190
ConfigDict ==
  [ configuration |-> c,
    fold |-> fold,
    model_parameters |->
      [ batch_size |-> IF ~use_dynamic_axes THEN JInt(args.batch_size)
                                             ELSE JStr("dynamic"),
        patch_size |-> config.patch_size,
        spacing |-> config.spacing,
        normalization_schemes |-> config.normalization_schemes,
        UNet_class_name |-> config.UNet_class_name,
        UNet_base_num_features |-> config.UNet_base_num_features,
        unet_max_num_features |-> config.unet_max_num_features,
        conv_kernel_sizes |-> config.conv_kernel_sizes,
        pool_op_kernel_sizes |-> config.pool_op_kernel_sizes,
        num_pool_per_axis |-> config.num_pool_per_axis ],
    dataset_parameters |->
      [ dataset_name |-> "Dataset",
        num_channels |-> Cardinality(DOMAIN env.dataset_json.channel_names),
        channels |->
          [k \in DOMAIN env.dataset_json.channel_names |->
             [ name |-> env.dataset_json.channel_names[k],
               foreground_properties |->
                 env.plans.foreground_intensity_properties_per_channel[k] ]],
        num_classes |-> Len(env.dataset_json.labels),
        class_names |-> ClassNames(env.dataset_json.labels) ] ]

\* lines 154-196: open(config.json, "w") creates the file, then the dict is
\* built (TypeError on an unhashable label value) and dumped
WriteConfig ==
  /\ pc = "write_config"
  /\ IF \A i \in 1..Len(env.dataset_json.labels) :
          Hashable(env.dataset_json.labels[i][2])
       THEN /\ files' = WriteFile(files, curr_output_dir, ConfigJson, "config",
                                  <<ConfigDict>>)
            /\ pc' = StepAfter("write_config") /\ err' = err
       ELSE /\ files' = WriteFile(files, curr_output_dir, ConfigJson, "config", << >>)
            /\ Raise("TypeError")
  /\ UNCHANGED <<args, env, output_names, ci, ki, fi, output_name,
                 list_of_parameters, network, dirs, rand_input, checked, ran,
                 last_parity>>

Next ==
  \/ Start
  \/ NextConfiguration
  \/ NextCheckpoint
  \/ NextFold
  \/ MakeOutputDir
  \/ Export
  \/ Check
  \/ Run
  \/ Compare
  \/ WriteConfig

Spec == Init /\ [][Next]_vars

\* ===================================================================
\* Properties
\* ===================================================================
Configs == {args.configurations[i] : i \in 1..Len(args.configurations)}

Folds == {args.folds[j] : j \in 1..Len(args.folds)}

NumCkpts == Len(args.save_checkpoints)

AllTrained == Configs \subseteq env.trained

IntLabels ==
  \A i \in 1..Len(env.dataset_json.labels) : "int" \in DOMAIN env.dataset_json.labels[i][2]

HasKind(d, k) == \E f \in files : f.dir = d /\ f.kind = k

HasConfigJson(d) == \E f \in files : f.dir = d /\ f.name = ConfigJson

\* C1: after a normal return with output_names = None, every configuration
\* trained and every target directory absent or empty, every
\* output_dir/c/fold_<f> exists and holds an artifact and a config.json.
C1_Claim ==
  (pc = "returned" /\ args.output_names = << >> /\ AllTrained /\ env.init_files = {})
    => \A cfg \in Configs, f \in Folds :
         /\ OutputPath(cfg, f) \in dirs
         /\ HasKind(OutputPath(cfg, f), "onnx")
         /\ HasConfigJson(OutputPath(cfg, f))

\* the configuration being processed has no trained model directory
AtMissingConfiguration ==
  /\ ci \in 1..Len(args.configurations)
  /\ args.configurations[ci] \notin env.trained
  /\ pc # "config"

\* C2: with strict, a configuration without trained model directory ends the
\* call with RuntimeError '... is missing the trained model of configuration
\* ...', no other error first, nothing exported for it.
C2_Claim ==
  (args.strict /\ AtMissingConfiguration)
    => /\ pc = "raised" /\ err = "RuntimeError_missing"
       /\ \A f \in files : f.dir[1] = args.configurations[ci] => f.kind = "entry"

\* C3: without strict, a configuration without trained model directory does
\* not end the call: it is skipped and nothing is written under it.
C3_Claim ==
  \A i \in 1..ci :
    (~args.strict /\ args.configurations[i] \notin env.trained)
      => /\ ~(pc = "raised" /\ i = ci)
         /\ \A f \in files : f.dir[1] = args.configurations[i] => f.kind = "entry"

\* C4: when a pair is processed and its output directory exists with at
\* least one entry, RuntimeError 'Output directory ... is not empty' is raised
\* before the export and nothing is created or changed; an empty or absent
\* directory is accepted, the absent one being created.
C4_DirCheck ==
  [][ pc = "mkdir" =>
        LET d == OutputPath(args.configurations[ci], args.folds[fi]) IN
        IF d \in dirs /\ \E f \in files : f.dir = d
          THEN pc' = "raised" /\ err' = "RuntimeError_notempty"
               /\ files' = files /\ dirs' = dirs
          ELSE pc' = "export" /\ err' = "none" /\ d \in dirs' /\ files' = files
    ]_vars

C4_Witness ==
  /\ pc = "raised" /\ err = "RuntimeError_notempty"
  /\ \E f \in files :
       f.kind = "entry" /\ f.dir = OutputPath(args.configurations[ci], args.folds[fi])
  /\ files = env.init_files

\* C5: a failed comparison of the torch and the ONNX output never ends the
\* call: the step only records the warning and hands over to the writing of
\* config.json with everything else unchanged, so the file is produced for
\* the pair and the rest of the run is the one of a passed comparison.
C5_ParityNeverAborts ==
  /\ [](/\ err # "AssertionError"
        /\ (last_parity.seen /\ ~last_parity.ok /\ pc # "write_config")
             => HasConfigJson(last_parity.dir))
  /\ [][ pc = "compare" =>
           /\ pc' = "write_config"
           /\ UNCHANGED <<args, env, output_names, err, ci, ki, fi, output_name,
                          list_of_parameters, network, dirs, files, rand_input,
                          checked, ran>>
       ]_vars

C5_Witness ==
  /\ pc = "returned"
  /\ last_parity.seen /\ ~last_parity.ok
  /\ HasConfigJson(last_parity.dir)

\* C6: every artifact and every config.json of the run lies in the directory
\* output_dir/c/fold_<f> of the configuration c and fold f it was made for:
\* the 'configuration' and 'fold' fields of config.json are that c and f, and
\* the artifact holds the parameters zipped with f.
C6_DirectoryMatchesPair ==
  \A f \in files : f.kind \in {"onnx", "config"} =>
    \E i \in 1..Len(args.configurations), j \in 1..Len(args.folds) :
      /\ f.dir = <<args.configurations[i], <<"fold_", args.folds[j]>>>>
      /\ f.kind = "config" =>
           \A n \in 1..Len(f.content) :
             /\ f.content[n].configuration = args.configurations[i]
             /\ f.content[n].fold = args.folds[j]
      /\ f.kind = "onnx" =>
           /\ f.content[1].params.configuration = args.configurations[i]
           /\ f.content[1].params.slot = j

C6_Witness ==
  /\ pc = "returned"
  /\ args.folds[1] # 0
  /\ \E f \in files : f.kind = "config" /\ Len(f.content) = 1
  /\ \E f \in files : f.kind = "onnx"

DocumentedKeys == {"configuration", "fold", "model_parameters", "dataset_parameters"}

ModelParameterKeys ==
  {"batch_size", "patch_size", "spacing", "normalization_schemes",
   "UNet_class_name", "UNet_base_num_features", "unet_max_num_features",
   "conv_kernel_sizes", "pool_op_kernel_sizes", "num_pool_per_axis"}

DatasetParameterKeys ==
  {"dataset_name", "num_channels", "channels", "num_classes", "class_names"}

\* C7: every config.json written holds all documented keys, num_channels is
\* the number of entries of 'channels' (one per channel of dataset.json, with
\* name and foreground_properties) and num_classes the number of entries of
\* 'class_names'.
C7_Claim ==
  \A f \in files : f.kind = "config" =>
    /\ Len(f.content) = 1
    /\ DOMAIN f.content[1] = DocumentedKeys
    /\ DOMAIN f.content[1].model_parameters = ModelParameterKeys
    /\ DOMAIN f.content[1].dataset_parameters = DatasetParameterKeys
    /\ LET dp == f.content[1].dataset_parameters IN
         /\ dp.num_channels = Cardinality(DOMAIN dp.channels)
         /\ DOMAIN dp.channels = DOMAIN env.dataset_json.channel_names
         /\ \A k \in DOMAIN dp.channels :
              DOMAIN dp.channels[k] = {"name", "foreground_properties"}
         /\ dp.num_classes = Cardinality(DOMAIN dp.class_names)

\* C8: the steps of a pair run in the order export, check, run, compare,
\* write config.json: where a config.json lies, the artifact lies too and has
\* been loaded, checked and run, and a pair whose export or check raised has
\* no config.json.
C8_ConfigAfterValidation ==
  /\ \A f \in files : f.kind = "config" =>
       \E a \in files :
         /\ a.kind = "onnx" /\ a.dir = f.dir
         /\ <<a.dir, a.name>> \in checked
         /\ <<a.dir, a.name>> \in ran
  /\ (pc = "raised" /\ err \in {"ExportError", "CheckError"})
       => ~HasConfigJson(OutputPath(args.configurations[ci], args.folds[fi]))

C8_Witness ==
  /\ pc = "raised" /\ err = "CheckError"
  /\ \E f \in files : f.kind = "config"
  /\ \E a \in files :
       a.kind = "onnx" /\ a.dir = OutputPath(args.configurations[ci], args.folds[fi])

\* the name the i-th checkpoint is to be exported under
ExpectedName(i) ==
  IF args.output_names = << >>
    THEN SubSeq(args.save_checkpoints[i], 1, Len(args.save_checkpoints[i]) - 4)
           \o <<".","o","n","n","x">>
    ELSE args.output_names[i]

\* C9: with k >= 2 checkpoints (and k output names, or none), the call
\* exports every checkpoint: each output_dir/c/fold_<f> ends up with the k
\* artifacts, the i-th checkpoint under the i-th name.
C9_Claim ==
  ( /\ NumCkpts >= 2
    /\ pc \in {"returned", "raised"}
    /\ args.batch_size >= 0 /\ AllTrained /\ env.init_files = {} /\ IntLabels
    /\ err \notin {"ExportError", "CheckError"} )
    => /\ pc = "returned"
       /\ \A cfg \in Configs, f \in Folds, i \in 1..NumCkpts :
            \E a \in files :
              /\ a.kind = "onnx" /\ a.dir = OutputPath(cfg, f)
              /\ a.name = ExpectedName(i)
              /\ a.content[1].params.checkpoint = args.save_checkpoints[i]

\* C10: a negative batch_size raises ValueError before any configuration is
\* read or anything is created; batch_size 0 exports with a dynamic batch axis
\* from a sample of batch dimension 1 and config.json records 'dynamic';
\* batch_size > 0 exports without dynamic axes from a sample of that batch
\* dimension and config.json records the integer.
C10_BatchSize ==
  /\ (args.batch_size < 0 /\ pc # "start")
       => /\ pc = "raised" /\ err = "ValueError" /\ ci = 0
          /\ files = env.init_files /\ dirs = env.init_dirs
  /\ \A f \in files :
       /\ f.kind = "onnx" =>
            IF args.batch_size = 0
              THEN f.content[1].dynamic_axes /\ f.content[1].input_shape[1] = 1
              ELSE /\ ~f.content[1].dynamic_axes
                   /\ f.content[1].input_shape[1] = args.batch_size
       /\ f.kind = "config" =>
            \A n \in 1..Len(f.content) :
              f.content[n].model_parameters.batch_size =
                IF args.batch_size = 0 THEN [str |-> "dynamic"]
                                       ELSE [int |-> args.batch_size]

C10_Witness ==
  /\ pc = "returned"
  /\ args.batch_size = MaxBatch
  /\ \E f \in files : f.kind = "config" /\ Len(f.content) = 1
  /\ \E f \in files : f.kind = "onnx"

====
